---- MODULE Spec2Model ----
(***************************************************************************)
(* Model of the fraud risk-scoring engine (app/core/fraud_engine.py) and   *)
(* of the service that stores its results                                  *)
(* (app/services/fraud_detection_service.py).                              *)
(*                                                                         *)
(* Scores, weights, decision values and probabilities are fixed-point      *)
(* numbers in thousandths: 10.0 is 10000, 0.7 is 700.  The input sets are  *)
(* chosen so that every product and quotient below is exact.               *)
(***************************************************************************)
EXTENDS Integers, Sequences, FiniteSets, TLC

(***************************************************************************)
(* State.                                                                  *)
(***************************************************************************)
VARIABLES
    risk_rules,     \* FraudDetectionEngine.risk_rules
    installed,      \* the list load_risk_rules or the last update_risk_rules call was given
    fitted,         \* the fitted scaler and models of the engine
    hash_seed,      \* string hash seed of the interpreter
    event,          \* argument of the last analyze_transaction call
    result,         \* the dict it returned
    locals,         \* its local variables and the rule list it read
    repeated,       \* the call repeated the event and rule list of the call before it
    transactions,   \* rows of the transactions table, in id order
    alerts,         \* rows of the fraud_alerts table, in id order
    notified,       \* ids of the alerts handed to send_fraud_alert
    response,       \* the dict returned by the last process_transaction call
    pc,             \* position of the _apply_risk_rules call in flight
    call_event,     \* its argument
    iter_rules,     \* the list object its for loop iterates
    iter_idx,       \* index of the next rule of the loop
    loop_acc,       \* its total_score and triggered_rules
    old_rules,      \* risk_rules when the call started
    swapped_rules,  \* risk_rules when the call ended
    probe_score,    \* argument of the last _determine_risk_level call
    probe_tier,     \* the tier it returned
    probe_call,     \* arguments and value of the last call of another pure method
    twin_rules,     \* risk_rules of a second engine, constructed the same way
    twin_result,    \* the dict its last analyze_transaction call returned
    authenticated_users, \* the module-level set of main.py
    client,         \* the page each client session displays
    logged_in,      \* the sessions that logged in and have not logged out since
    page_view       \* the last request of a protected page and its outcome

engineVars == <<risk_rules, installed, fitted, hash_seed>>
callVars == <<event, result, locals, repeated>>
serviceVars == <<transactions, alerts, notified, response>>
loopVars == <<pc, call_event, iter_rules, iter_idx, loop_acc, old_rules, swapped_rules>>
probeVars == <<probe_score, probe_tier, probe_call, twin_rules, twin_result>>
sessionVars == <<authenticated_users, client, logged_in, page_view>>
vars == <<engineVars, callVars, serviceVars, loopVars, probeVars, sessionVars>>

(***************************************************************************)
(* Bounds of the model.                                                    *)
(***************************************************************************)
MaxRules == 2
MaxTriggered == 3

(***************************************************************************)
(* Program constants (thousandths).                                        *)
(***************************************************************************)
FRAUD_THRESHOLD == 700
RULE_WEIGHT == 600
ML_WEIGHT == 400
MAX_SCORE == 10000
CRITICAL_THRESHOLD == 8000
HIGH_THRESHOLD == 6000
MEDIUM_THRESHOLD == 4000
DEFAULT_BALANCE == 10000
LOG_AMOUNT_HIGH == 8000

Min(a, b) == IF a <= b THEN a ELSE b
Max(a, b) == IF a >= b THEN a ELSE b

(***************************************************************************)
(* Transaction events: the dict handed to analyze_transaction.  Field      *)
(* values are the raw inputs; float() and datetime.fromisoformat() are     *)
(* modelled by the conversions below.  Keys that the events of the model   *)
(* do not carry (channel, transaction_type, merchant_category,             *)
(* account_balance, fraud_indicators) take the defaults of the code.       *)
(***************************************************************************)
AmountInputs == {"abc", "-10", "100", "5000"}
TimestampInputs == {"2024-01-15T14:00:00", "2024-01-15T23:00:00Z", "not-a-date"}
CountryInputs == {"IE", "US"}

Events ==
    [amount : AmountInputs, timestamp : TimestampInputs,
     location_country : CountryInputs, is_new_merchant : BOOLEAN]

\* one timestamp in each hour of the day; the entry of hour h is at h + 1
ClockTimestamps ==
    << "2024-01-15T00:30:00", "2024-01-15T01:30:00", "2024-01-15T02:30:00",
       "2024-01-15T03:30:00", "2024-01-15T04:30:00", "2024-01-15T05:30:00",
       "2024-01-15T06:59:59", "2024-01-15T07:00:00", "2024-01-15T08:30:00",
       "2024-01-15T09:30:00", "2024-01-15T10:30:00", "2024-01-15T11:30:00",
       "2024-01-15T12:30:00", "2024-01-15T13:30:00", "2024-01-15T14:30:00",
       "2024-01-15T15:30:00", "2024-01-15T16:30:00", "2024-01-15T17:30:00",
       "2024-01-15T18:30:00", "2024-01-15T19:30:00", "2024-01-15T20:30:00",
       "2024-01-15T21:59:59", "2024-01-15T22:00:00", "2024-01-15T23:30:00" >>

\* the values of the 'fraud_indicators' hint of an event that carries one
HintInputs == {"", "rapid", "rapid succession", "normal activity"}

\* the value of 'event' before the first call
NoEvent == [amount |-> "none"]

\* float(x): raises ValueError on text that is not a number
FloatRaises(s) == s = "abc"

FloatOf(s) ==
    CASE s = "-10" -> -10
      [] s = "0" -> 0
      [] s = "1000" -> 1000
      [] s = "100" -> 100
      [] s = "2500" -> 2500
      [] s = "5000" -> 5000

\* datetime.fromisoformat(ts.replace('Z', '+00:00')): raises ValueError on
\* text that is not an ISO timestamp
FromIsoRaises(ts) == ts = "not-a-date"

HourOf(ts) ==
    CASE ts = "2024-01-15T14:00:00" -> 14
      [] ts = "2024-01-15T23:00:00Z" -> 23
      [] OTHER -> (CHOOSE h \in 0..23 : ClockTimestamps[h + 1] = ts)

WeekdayOf(ts) ==
    CASE ts = "2024-01-15T14:00:00" -> 0
      [] ts = "2024-01-15T23:00:00Z" -> 0
      [] OTHER -> 0

\* np.log1p(amount) in thousandths; nan (with a warning, no exception) for
\* amount < -1
Log1p(amount) ==
    CASE amount < -1 -> [nan |-> TRUE, v |-> 0]
      [] amount = 100 -> [nan |-> FALSE, v |-> 4615]
      [] amount = 2500 -> [nan |-> FALSE, v |-> 7824]
      [] amount = 5000 -> [nan |-> FALSE, v |-> 8517]

EuCountries == {"IE", "GB", "FR", "DE", "ES", "IT", "NL", "BE", "AT", "PT"}
HighRiskCategories == {"gambling", "crypto", "cash_advance", "money_transfer"}

\* transaction_data.get('merchant_category', 'other')
MerchantCategory(ev) ==
    IF "merchant_category" \in DOMAIN ev THEN ev.merchant_category ELSE "other"

\* _extract_features: raises when the amount or the timestamp cannot be
\* converted, otherwise the 8 features in order
ExtractRaises(ev) ==
    \/ FloatRaises(ev.amount)
    \/ FromIsoRaises(ev.timestamp)
    \/ "account_balance" \in DOMAIN ev /\ FloatRaises(ev.account_balance)

\* float(transaction_data.get('account_balance', 10000))
AccountBalance(ev) ==
    IF "account_balance" \in DOMAIN ev THEN FloatOf(ev.account_balance)
    ELSE DEFAULT_BALANCE

ExtractFeatures(ev) ==
    LET amount == FloatOf(ev.amount)
        country_risk == IF ev.location_country = "IE" THEN 0
                        ELSE IF ev.location_country \in EuCountries THEN 1
                        ELSE 2
        balance_ratio == (amount * 1000) \div Max(AccountBalance(ev), 1)
    IN  << Log1p(amount),
           HourOf(ev.timestamp),
           WeekdayOf(ev.timestamp),
           3,
           country_risk,
           1,
           IF MerchantCategory(ev) \in HighRiskCategories THEN 2 ELSE 1,
           Min(balance_ratio, 2000) >>

(***************************************************************************)
(* Risk rules.  A rule is the dict the engine reads: 'name', 'type',       *)
(* 'threshold', 'weight'.  update_risk_rules accepts any list of dicts, so *)
(* the pool holds a custom rule with a negative weight and an unfinished   *)
(* rule that has no 'weight' key.                                          *)
(***************************************************************************)
DefaultRules ==
    << [name |-> "high_amount_threshold", type |-> "amount", threshold |-> 5000, weight |-> 3000],
       [name |-> "foreign_transaction", type |-> "location", threshold |-> 1, weight |-> 2000],
       [name |-> "unusual_time", type |-> "time", threshold |-> 1, weight |-> 1500],
       [name |-> "velocity_check", type |-> "velocity", threshold |-> 3, weight |-> 2500],
       [name |-> "new_merchant", type |-> "pattern", threshold |-> 1, weight |-> 1000] >>

RulePool ==
    { [name |-> "trusted_merchant", type |-> "pattern", threshold |-> 1, weight |-> -2500],
      [name |-> "night_draft", type |-> "time", threshold |-> 1] }

RuleSets == UNION { [1..n -> RulePool] : n \in 0..MaxRules }

\* 'rapid' in s, for the hint texts of the model
HasRapid(s) == s \in {"rapid", "rapid succession"}

\* transaction_data.get('fraud_indicators', '')
HintOf(ev) == IF "fraud_indicators" \in DOMAIN ev THEN ev.fraud_indicators ELSE ""

ContainsRapidOrRepeat(ev) == HasRapid(HintOf(ev)) \/ event = ev

ContainsRapidOrRecent(ev) ==
    HasRapid(HintOf(ev)) \/ (event # NoEvent /\ event.amount = ev.amount)

\* 'rapid' in transaction_data.get('fraud_indicators', '')
ContainsRapid(ev) == HasRapid(HintOf(ev))

RuleTriggeredOutsideBloc(rule, ev) ==
    CASE rule.type = "amount" -> FloatOf(ev.amount) >= rule.threshold
      [] rule.type = "location" -> ev.location_country \notin EuCountries
      [] rule.type = "time" -> HourOf(ev.timestamp) >= 22 \/ HourOf(ev.timestamp) <= 6
      [] rule.type = "velocity" -> ContainsRapid(ev)
      [] rule.type = "pattern" -> ev.is_new_merchant
      [] OTHER -> FALSE

RuleTriggeredBeforeSix(rule, ev) ==
    CASE rule.type = "amount" -> FloatOf(ev.amount) >= rule.threshold
      [] rule.type = "location" -> ev.location_country # "IE"
      [] rule.type = "time" -> HourOf(ev.timestamp) >= 22 \/ HourOf(ev.timestamp) < 6
      [] rule.type = "velocity" -> ContainsRapid(ev)
      [] rule.type = "pattern" -> ev.is_new_merchant
      [] OTHER -> FALSE

\* the body of the loop of _apply_risk_rules up to 'if triggered'
RuleTriggered(rule, ev) ==
    CASE rule.type = "amount" -> FloatOf(ev.amount) >= rule.threshold
      [] rule.type = "location" -> ev.location_country # "IE"
      [] rule.type = "time" -> HourOf(ev.timestamp) >= 22 \/ HourOf(ev.timestamp) <= 6
      [] rule.type = "velocity" -> ContainsRapid(ev)
      [] rule.type = "pattern" -> ev.is_new_merchant
      [] OTHER -> FALSE

\* rule['weight'] of a triggered rule raises KeyError when the key is missing
RuleRaises(rule, ev) == RuleTriggered(rule, ev) /\ "weight" \notin DOMAIN rule

\* Floating-point addition.  total_score and the weights are floats, and
\* each += rounds the exact sum to the nearest float, ties to the even
\* significand.  The floats of the model have a significand of 12 bits (53
\* in the interpreter): below 4096 thousandths every integer is a float,
\* from 4096 every second one, from 8192 every fourth one, and so on.
Abs(x) == IF x < 0 THEN -x ELSE x

Ulp(a) ==
    IF a < 4096 THEN 1
    ELSE IF a < 8192 THEN 2
    ELSE IF a < 16384 THEN 4
    ELSE IF a < 32768 THEN 8
    ELSE 16

FloatRound(x) ==
    LET a == Abs(x)
        u == Ulp(a)
        q == a \div u
        r == a % u
        n == IF 2 * r < u THEN q
             ELSE IF 2 * r > u THEN q + 1
             ELSE IF q % 2 = 0 THEN q ELSE q + 1
    IN  IF x < 0 THEN -(n * u) ELSE n * u

FloatAdd(x, y) == FloatRound(x + y)

\* one iteration of the loop: acc is [raised, total, triggered]
RuleStep(acc, rule, ev) ==
    IF acc.raised THEN acc
    ELSE IF RuleRaises(rule, ev) THEN [acc EXCEPT !.raised = TRUE]
    ELSE IF RuleTriggered(rule, ev)
         THEN [acc EXCEPT !.total = FloatAdd(@, rule.weight),
                          !.triggered = Append(@, rule.name)]
    ELSE acc

RECURSIVE RuleLoop(_, _, _, _)
RuleLoop(acc, rules, i, ev) ==
    IF i > Len(rules) THEN acc
    ELSE RuleLoop(RuleStep(acc, rules[i], ev), rules, i + 1, ev)

ApplyRiskRulesReset(ev, rules) ==
    IF FloatRaises(ev.amount) \/ FromIsoRaises(ev.timestamp)
    THEN [raised |-> TRUE, score |-> 0, triggered |-> <<>>]
    ELSE LET acc == RuleLoop([raised |-> FALSE, total |-> 0, triggered |-> <<>>], rules, 1, ev)
         IN  IF acc.raised
             THEN [raised |-> TRUE, score |-> 0, triggered |-> <<>>]
             ELSE [raised |-> FALSE,
                   score |-> IF acc.total > MAX_SCORE THEN 0 ELSE acc.total,
                   triggered |-> acc.triggered]

\* _apply_risk_rules: [raised, score, triggered]
ApplyRiskRules(ev, rules) ==
    IF FloatRaises(ev.amount) \/ FromIsoRaises(ev.timestamp)
    THEN [raised |-> TRUE, score |-> 0, triggered |-> <<>>]
    ELSE LET acc == RuleLoop([raised |-> FALSE, total |-> 0, triggered |-> <<>>], rules, 1, ev)
         IN  IF acc.raised
             THEN [raised |-> TRUE, score |-> 0, triggered |-> <<>>]
             ELSE [raised |-> FALSE,
                   score |-> Min(acc.total, MAX_SCORE),
                   triggered |-> acc.triggered]

(***************************************************************************)
(* The fitted models.  The scaler, the isolation forest and the random     *)
(* forest are fitted once in the constructor, on data drawn with fixed     *)
(* seeds, and only read afterwards: a fixed function of the feature        *)
(* vector, here of its country-risk entry.  decision is the value of       *)
(* decision_function and proba the fraud probability of predict_proba,     *)
(* both in thousandths.                                                    *)
(***************************************************************************)
FittedModel ==
    [r \in 0..2 |->
        CASE r = 0 -> [decision |-> 150, proba |-> 175]
          [] r = 1 -> [decision |-> 400, proba |-> 25]
          [] r = 2 -> [decision |-> -2000, proba |-> 998]]

\* StandardScaler.transform rejects a vector that holds nan
MlRaises(features) == features[1].nan

ApplyMlModelsNeutral(model, features) ==
    IF MlRaises(features) THEN 5000
    ELSE LET out == model[features[5]]
             anomaly_score_normalized == Max(0, Min(MAX_SCORE, (500 - out.decision) * 5))
             classification_score == out.proba * 10
         IN  (anomaly_score_normalized + classification_score) \div 2

\* _apply_ml_models
ApplyMlModels(model, features) ==
    IF MlRaises(features) THEN 0
    ELSE LET out == model[features[5]]
             anomaly_score_normalized == Max(0, Min(MAX_SCORE, (500 - out.decision) * 5))
             classification_score == out.proba * 10
         IN  (anomaly_score_normalized + classification_score) \div 2

CombineScoresEven(rule_score, ml_score) ==
    Min((rule_score * 500 + ml_score * 500) \div 1000, MAX_SCORE)

\* _combine_scores
CombineScores(rule_score, ml_score) ==
    Min((rule_score * RULE_WEIGHT + ml_score * ML_WEIGHT) \div 1000, MAX_SCORE)

\* the values of _determine_risk_level
Tiers == {"low", "medium", "high", "critical"}

DetermineRiskLevelStrict(score) ==
    IF score > CRITICAL_THRESHOLD THEN "critical"
    ELSE IF score > HIGH_THRESHOLD THEN "high"
    ELSE IF score > MEDIUM_THRESHOLD THEN "medium"
    ELSE "low"

\* _determine_risk_level
DetermineRiskLevel(score) ==
    IF score >= CRITICAL_THRESHOLD THEN "critical"
    ELSE IF score >= HIGH_THRESHOLD THEN "high"
    ELSE IF score >= MEDIUM_THRESHOLD THEN "medium"
    ELSE "low"

\* round(x, 2): to the nearest hundredth (the scores of the model are never
\* halfway between two hundredths)
Round2(x) == ((x + 5) \div 10) * 10

(***************************************************************************)
(* Indicator phrases.  list(set(indicators)) returns the distinct strings  *)
(* in the order of the set's hash table, which depends on the string       *)
(* hashes of the running interpreter: hash_seed stands for the hash seed   *)
(* of the process and HashRank for the place of a phrase in the table.     *)
(***************************************************************************)
Phrases ==
    << "Unusually high transaction amount",
       "Transaction outside Ireland",
       "Transaction at unusual time",
       "Multiple rapid transactions",
       "First transaction with this merchant",
       "Amount significantly above normal pattern",
       "Transaction from high-risk country",
       "High-risk merchant category" >>

HashSeeds == {1, 3}

RuleDescriptions ==
    [ high_amount_threshold |-> Phrases[1],
      foreign_transaction |-> Phrases[2],
      unusual_time |-> Phrases[3],
      velocity_check |-> Phrases[4],
      new_merchant |-> Phrases[5] ]

PhraseIndex(p) == CHOOSE i \in 1..Len(Phrases) : Phrases[i] = p

HashRank(seed, p) == (PhraseIndex(p) * seed) % 11

RECURSIVE SetToList(_, _)
SetToList(seed, S) ==
    IF S = {} THEN <<>>
    ELSE LET first == CHOOSE p \in S : \A q \in S : HashRank(seed, p) <= HashRank(seed, q)
         IN  <<first>> \o SetToList(seed, S \ {first})

\* variant: a name missing from the table contributes a phrase all the same
RuleIndicatorsFallback(triggered, i) ==
    [k \in 1..Len(triggered) |->
        IF triggered[k] \in DOMAIN RuleDescriptions
        THEN RuleDescriptions[triggered[k]] ELSE Phrases[8]]

RECURSIVE RuleIndicators(_, _)
RuleIndicators(triggered, i) ==
    IF i > Len(triggered) THEN <<>>
    ELSE (IF triggered[i] \in DOMAIN RuleDescriptions
          THEN <<RuleDescriptions[triggered[i]]>> ELSE <<>>)
         \o RuleIndicators(triggered, i + 1)

\* the list 'indicators' before duplicates are removed
IndicatorList(triggered, features) ==
    RuleIndicators(triggered, 1)
    \o (IF ~features[1].nan /\ features[1].v > LOG_AMOUNT_HIGH THEN <<Phrases[6]>> ELSE <<>>)
    \o (IF features[5] = 2 THEN <<Phrases[7]>> ELSE <<>>)
    \o (IF features[7] = 2 THEN <<Phrases[8]>> ELSE <<>>)

Range(s) == { s[i] : i \in DOMAIN s }

GenerateFraudIndicatorsRaw(seed, triggered, features) == IndicatorList(triggered, features)

\* _generate_fraud_indicators
GenerateFraudIndicators(seed, triggered, features) ==
    SetToList(seed, Range(IndicatorList(triggered, features)))

(***************************************************************************)
(* analyze_transaction.  The value is [result, locals]: the dict returned  *)
(* to the caller and the local variables of the call (step is the step     *)
(* that raised, "none" when none did).                                     *)
(***************************************************************************)
DegradedResult(err) ==
    [risk_score |-> 0, risk_level |-> "unknown", is_flagged |-> FALSE,
     fraud_indicators |-> <<>>, error |-> err]

IsFlaggedByTier(final_score) == DetermineRiskLevel(final_score) \in {"high", "critical"}

IsFlagged(final_score) == final_score >= FRAUD_THRESHOLD

AnalysisFailedAsClean(step, err, rules) ==
    [result |-> [risk_score |-> 0, risk_level |-> "low", is_flagged |-> FALSE,
                 fraud_indicators |-> <<>>],
     locals |-> [step |-> step, rules |-> rules, rule_score |-> 0, ml_raised |-> FALSE,
                 ml_score |-> 0, final_score |-> 0]]

AnalysisFailed(step, err, rules) ==
    [result |-> DegradedResult(err),
     locals |-> [step |-> step, rules |-> rules, rule_score |-> 0, ml_raised |-> FALSE,
                 ml_score |-> 0, final_score |-> 0]]

AnalyzeTransaction(ev, rules, model, seed) ==
    IF ExtractRaises(ev) THEN AnalysisFailed("extract", "ValueError", rules)
    ELSE LET features == ExtractFeatures(ev)
             applied == ApplyRiskRules(ev, rules)
         IN  IF applied.raised THEN AnalysisFailed("rules", "KeyError", rules)
             ELSE LET ml_score == ApplyMlModels(model, features)
                      final_score == CombineScores(applied.score, ml_score)
                  IN  [result |->
                          [risk_score |-> Round2(final_score),
                           risk_level |-> DetermineRiskLevel(final_score),
                           is_flagged |-> IsFlagged(final_score),
                           fraud_indicators |->
                               GenerateFraudIndicators(seed, applied.triggered, features),
                           triggered_rules |-> applied.triggered,
                           ml_score |-> Round2(ml_score),
                           rule_score |-> Round2(applied.score)],
                       locals |-> [step |-> "none", rules |-> rules,
                                   rule_score |-> applied.score,
                                   ml_raised |-> MlRaises(features),
                                   ml_score |-> ml_score, final_score |-> final_score]]

(***************************************************************************)
(* The engine: analyze_transaction and update_risk_rules called one after  *)
(* the other.                                                              *)
(***************************************************************************)
NoResult == [risk_level |-> "none"]
NoView == [page |-> "none", rendered |-> FALSE]

\* the client sessions (browser tabs) of the web interface
Sessions == {"s1", "s2"}
NoLocals == [step |-> "idle"]
NoResponse == [status |-> "none"]
NoAcc == [raised |-> FALSE, total |-> 0, triggered |-> <<>>]
NoCall == [fn |-> "none"]

\* FraudDetectionService.__init__ and FraudDetectionEngine.__init__
Init ==
    /\ risk_rules = DefaultRules
    /\ installed = DefaultRules
    /\ fitted = FittedModel
    /\ hash_seed \in HashSeeds
    /\ event = NoEvent
    /\ result = NoResult
    /\ locals = NoLocals
    /\ repeated = FALSE
    /\ transactions = <<>>
    /\ alerts = <<>>
    /\ notified = {}
    /\ response = NoResponse
    /\ pc = "idle"
    /\ call_event = NoEvent
    /\ iter_rules = <<>>
    /\ iter_idx = 1
    /\ loop_acc = NoAcc
    /\ old_rules = <<>>
    /\ swapped_rules = <<>>
    /\ probe_score = 0
    /\ probe_tier = "none"
    /\ probe_call = NoCall
    /\ twin_rules = DefaultRules
    /\ twin_result = NoResult
    /\ authenticated_users = {}
    /\ client = [s \in Sessions |-> "/"]
    /\ logged_in = {}
    /\ page_view = NoView

\* a call of analyze_transaction
Analyze(ev) ==
    \E a \in {AnalyzeTransaction(ev, risk_rules, fitted, hash_seed)} :
        /\ event' = ev
        /\ result' = a.result
        /\ locals' = a.locals
        /\ repeated' = (locals.step # "idle" /\ event = ev /\ locals.rules = risk_rules)
        /\ UNCHANGED <<engineVars, serviceVars, loopVars, sessionVars, probeVars>>

UpdatedRulesToggled(current, new_rules) ==
    IF current = new_rules THEN DefaultRules ELSE new_rules

UpdatedRulesMerged(current, new_rules) == new_rules \o current

\* the value update_risk_rules binds self.risk_rules to
UpdatedRules(current, new_rules) == new_rules

\* update_risk_rules
UpdateRiskRules(new_rules) ==
    /\ risk_rules' = UpdatedRules(risk_rules, new_rules)
    /\ installed' = new_rules
    /\ UNCHANGED <<fitted, hash_seed, callVars, serviceVars, loopVars, sessionVars, probeVars>>

Next ==
    \/ \E ev \in Events : Analyze(ev)
    \/ \E new_rules \in RuleSets : UpdateRiskRules(new_rules)

Spec == Init /\ [][Next]_vars

(***************************************************************************)
(* The service: process_transaction calls, each analysing the event,       *)
(* storing the transaction, and creating and forwarding the alert of a     *)
(* flagged one.  The store is an external database: db_fault is the commit *)
(* that fails in the call, if any.                                         *)
(***************************************************************************)
TxIds == {"TX-1", "TX-2"}
DbFaults == {"none", "store", "alert"}

\* the events the service is called with
ServiceEvents == { ev \in Events : ~ev.is_new_merchant }

\* _determine_alert_type
DetermineAlertType(analysis) ==
    LET triggered == IF "triggered_rules" \in DOMAIN analysis
                     THEN Range(analysis.triggered_rules) ELSE {}
    IN  IF "high_amount_threshold" \in triggered THEN "high_value_transaction"
        ELSE IF "foreign_transaction" \in triggered THEN "suspicious_location"
        ELSE IF "velocity_check" \in triggered THEN "rapid_transactions"
        ELSE IF "unusual_time" \in triggered THEN "off_hours_transaction"
        ELSE "anomaly_detected"

\* _store_transaction raises: the amount is not a number, the transaction_id
\* is already in the table (unique column), or the commit fails
StoreRaises(tid, ev, db_fault) ==
    \/ FloatRaises(ev.amount)
    \/ \E i \in DOMAIN transactions : transactions[i].transaction_id = tid
    \/ db_fault = "store"

\* variant: only the transactions of the two upper tiers are held
TransactionRowHeldWhenHigh(tid, analysis) ==
    [transaction_id |-> tid,
     risk_score |-> analysis.risk_score,
     is_flagged |-> analysis.is_flagged,
     status |-> IF analysis.is_flagged /\ analysis.risk_level \in {"high", "critical"}
                THEN "investigating" ELSE "approved"]

\* the row written by _store_transaction
TransactionRow(tid, analysis) ==
    [transaction_id |-> tid,
     risk_score |-> analysis.risk_score,
     is_flagged |-> analysis.is_flagged,
     status |-> IF analysis.is_flagged THEN "investigating" ELSE "approved"]

\* the row written by _create_fraud_alert for the transaction with id tx_id
AlertRow(tx_id, analysis) ==
    [alert_id |-> tx_id,
     transaction_id |-> tx_id,
     alert_type |-> DetermineAlertType(analysis),
     severity |-> analysis.risk_level,
     risk_score |-> analysis.risk_score,
     status |-> "open"]

ErrorResponse == [status |-> "error"]

\* the dict returned by process_transaction when nothing raised
ProcessedResponse(analysis) ==
    [status |-> "processed",
     risk_assessment |-> analysis,
     requires_review |-> analysis.is_flagged]

NotifyRequiredWhenFlagged(analysis) == analysis.risk_level \in Tiers

\* analysis_result.get('risk_level') in ['high', 'critical']
NotifyRequired(analysis) == analysis.risk_level \in {"high", "critical"}

SendFraudAlertUnguarded(alert) == [raised |-> TRUE, delivered |-> FALSE]

\* send_fraud_alert: the whole body runs in a try block whose except branch
\* returns False.  The argument is the FraudAlert row, which has no get
\* method, so the first statement raises AttributeError and nothing is
\* delivered.
SendFraudAlert(alert) == [raised |-> FALSE, delivered |-> FALSE]

\* process_transaction
ProcessTransaction(tid, ev, db_fault) ==
    \E analysis \in {AnalyzeTransaction(ev, risk_rules, fitted, hash_seed).result} :
        IF StoreRaises(tid, ev, db_fault)
        THEN /\ response' = ErrorResponse
             /\ UNCHANGED <<transactions, alerts, notified>>
        ELSE /\ transactions' = Append(transactions, TransactionRow(tid, analysis))
             /\ IF ~analysis.is_flagged
                THEN /\ response' = ProcessedResponse(analysis)
                     /\ UNCHANGED <<alerts, notified>>
                ELSE IF db_fault = "alert"
                THEN /\ response' = ErrorResponse
                     /\ UNCHANGED <<alerts, notified>>
                ELSE /\ alerts' = Append(alerts, AlertRow(Len(transactions) + 1, analysis))
                     /\ IF NotifyRequired(analysis)
                        THEN /\ notified' = notified \cup {Len(transactions) + 1}
                             /\ response' =
                                   IF SendFraudAlert(AlertRow(Len(transactions) + 1, analysis)).raised
                                   THEN ErrorResponse
                                   ELSE ProcessedResponse(analysis)
                        ELSE /\ UNCHANGED notified
                             /\ response' = ProcessedResponse(analysis)

ServiceNext ==
    \E tid \in TxIds, ev \in ServiceEvents, db_fault \in DbFaults :
        /\ ProcessTransaction(tid, ev, db_fault)
        /\ UNCHANGED <<engineVars, callVars, loopVars, sessionVars, probeVars>>

ServiceSpec == Init /\ [][ServiceNext]_vars

(***************************************************************************)
(* _apply_risk_rules running in one thread, statement by statement, while  *)
(* other threads call update_risk_rules.  The for loop takes an iterator   *)
(* over the list object that self.risk_rules names when the loop starts;   *)
(* update_risk_rules binds the attribute to another list object and leaves *)
(* the old one as it is.                                                   *)
(***************************************************************************)
ConcEvents == { ev \in Events : ev.location_country = "US" /\ ev.amount \in {"abc", "5000"} }

LoopRulesReread == risk_rules

\* the list the iterator of 'for rule in self.risk_rules' walks
LoopRules == iter_rules

\* _apply_risk_rules up to the for statement
BeginApplyRiskRules(ev) ==
    /\ pc # "loop"
    /\ call_event' = ev
    /\ loop_acc' = NoAcc
    /\ iter_idx' = 1
    /\ iter_rules' = risk_rules
    /\ old_rules' = risk_rules
    /\ IF FloatRaises(ev.amount) \/ FromIsoRaises(ev.timestamp)
       THEN pc' = "raised" /\ swapped_rules' = risk_rules
       ELSE pc' = "loop" /\ UNCHANGED swapped_rules
    /\ UNCHANGED <<engineVars, callVars, serviceVars, probeVars, sessionVars>>

\* one iteration of the loop, or its end and the return statement
LoopStep ==
    /\ pc = "loop"
    /\ IF iter_idx > Len(LoopRules)
       THEN /\ pc' = "returned"
            /\ swapped_rules' = risk_rules
            /\ UNCHANGED <<loop_acc, iter_idx>>
       ELSE /\ loop_acc' = RuleStep(loop_acc, LoopRules[iter_idx], call_event)
            /\ iter_idx' = iter_idx + 1
            /\ IF loop_acc'.raised
               THEN pc' = "raised" /\ swapped_rules' = risk_rules
               ELSE pc' = "loop" /\ UNCHANGED swapped_rules
    /\ UNCHANGED <<call_event, iter_rules, old_rules>>
    /\ UNCHANGED <<engineVars, callVars, serviceVars, probeVars, sessionVars>>

ConcNext ==
    \/ \E ev \in ConcEvents : BeginApplyRiskRules(ev)
    \/ LoopStep
    \/ \E new_rules \in RuleSets : UpdateRiskRules(new_rules)

ConcSpec == Init /\ [][ConcNext]_vars

(***************************************************************************)
(* _determine_risk_level applied to scores of the whole range.             *)
(***************************************************************************)
ScoreInputs ==
    { k * 100 : k \in -10..110 } \cup { 3999, 4001, 5999, 6001, 7999, 8001, 9999, 10001 }

Classify(score) ==
    /\ probe_score' = score
    /\ probe_tier' = DetermineRiskLevel(score)
    /\ UNCHANGED <<probe_call, twin_rules, twin_result>>
    /\ UNCHANGED <<engineVars, callVars, serviceVars, loopVars, sessionVars>>

TierNext == \E score \in ScoreInputs : Classify(score)

TierSpec == Init /\ [][TierNext]_vars

(***************************************************************************)
(* Two engines constructed the same way and given the same calls, except   *)
(* that every update_risk_rules call is made once on the first engine and  *)
(* twice in a row on the second.                                           *)
(***************************************************************************)
TwinEvents == { ev \in Events : ev.timestamp # "not-a-date" }

UpdateOnceAndTwice(new_rules) ==
    /\ risk_rules' = UpdatedRules(risk_rules, new_rules)
    /\ installed' = new_rules
    /\ twin_rules' = UpdatedRules(UpdatedRules(twin_rules, new_rules), new_rules)
    /\ UNCHANGED <<fitted, hash_seed, probe_score, probe_tier, probe_call, twin_result>>
    /\ UNCHANGED <<callVars, serviceVars, loopVars, sessionVars>>

AnalyzeBoth(ev) ==
    \E a \in {AnalyzeTransaction(ev, risk_rules, fitted, hash_seed)},
       b \in {AnalyzeTransaction(ev, twin_rules, fitted, hash_seed)} :
        /\ event' = ev
        /\ result' = a.result
        /\ locals' = a.locals
        /\ repeated' = (locals.step # "idle" /\ event = ev /\ locals.rules = risk_rules)
        /\ twin_result' = b.result
        /\ UNCHANGED <<probe_score, probe_tier, probe_call, twin_rules>>
        /\ UNCHANGED <<engineVars, serviceVars, loopVars, sessionVars>>

TwinNext ==
    \/ \E new_rules \in RuleSets : UpdateOnceAndTwice(new_rules)
    \/ \E ev \in TwinEvents : AnalyzeBoth(ev)

TwinSpec == Init /\ [][TwinNext]_vars

(***************************************************************************)
(* _apply_risk_rules called once on an engine with a given rule list, and  *)
(* on a second engine whose rule list is the same one, the same one with   *)
(* the weight of one rule changed, or a permutation of it.                 *)
(***************************************************************************)
\* events at every hour of the day
HourEvents ==
    { [amount |-> "100", timestamp |-> ClockTimestamps[h + 1],
       location_country |-> c, is_new_merchant |-> FALSE] :
         h \in 0..23, c \in CountryInputs }

\* events that carry the 'fraud_indicators' hint
HintedEvents ==
    [amount : {"100", "5000"},
     timestamp : {"2024-01-15T14:00:00", "2024-01-15T23:00:00Z"},
     location_country : CountryInputs, is_new_merchant : BOOLEAN,
     fraud_indicators : HintInputs]

\* an online purchase of 2500.00 at 14:00, at home, in the bloc or outside
ScenarioEvents ==
    { [amount |-> "2500", timestamp |-> "2024-01-15T14:00:00",
       location_country |-> c, is_new_merchant |-> b,
       merchant_category |-> "electronics", channel |-> "online"] :
         c \in {"IE", "FR", "US"}, b \in BOOLEAN }

RuleEvents == Events \cup HourEvents \cup HintedEvents \cup ScenarioEvents

\* a custom list with one large and two small weights, and one whose
\* weights pass 10.0 and whose last rule has no 'weight' key
GradedRules ==
    << [name |-> "bulk_transfer", type |-> "amount", threshold |-> 5000, weight |-> 4096],
       [name |-> "abroad_fee", type |-> "location", threshold |-> 1, weight |-> 1],
       [name |-> "late_fee", type |-> "time", threshold |-> 1, weight |-> 1] >>

SteepRules ==
    << [name |-> "first_purchase", type |-> "pattern", threshold |-> 1, weight |-> 9000],
       [name |-> "abroad_discount", type |-> "location", threshold |-> 1, weight |-> -2500],
       [name |-> "night_draft", type |-> "time", threshold |-> 1] >>

RuleLists == {DefaultRules, GradedRules, SteepRules}

WeightInputs == {-2500, 1, 1000, 4096, 9000}

\* the list with rule['weight'] of the rule at index i set to w
Reweighted(rules, i, w) == [rules EXCEPT ![i] = [@ EXCEPT !.weight = w]]

\* the list with its rules in the order p
Permuted(rules, p) == [k \in 1..Len(rules) |-> rules[p[k]]]

\* the two calls and what they return
RulesCall(kind, ev, rules, other, index) ==
    [fn |-> "_apply_risk_rules", kind |-> kind, ev |-> ev, rules |-> rules,
     other |-> other, index |-> index,
     out |-> ApplyRiskRules(ev, rules),
     other_out |-> ApplyRiskRules(ev, other)]

EvaluateRules(ev, rules) ==
    /\ probe_call' = RulesCall("same", ev, rules, rules, 0)
    /\ UNCHANGED <<probe_score, probe_tier, twin_rules, twin_result>>
    /\ UNCHANGED <<engineVars, callVars, serviceVars, loopVars, sessionVars>>

EvaluateReweighted(ev, rules, i, w) ==
    /\ "weight" \in DOMAIN rules[i]
    /\ probe_call' = RulesCall("reweighted", ev, rules, Reweighted(rules, i, w), i)
    /\ UNCHANGED <<probe_score, probe_tier, twin_rules, twin_result>>
    /\ UNCHANGED <<engineVars, callVars, serviceVars, loopVars, sessionVars>>

EvaluatePermuted(ev, rules, p) ==
    /\ probe_call' = RulesCall("permuted", ev, rules, Permuted(rules, p), 0)
    /\ UNCHANGED <<probe_score, probe_tier, twin_rules, twin_result>>
    /\ UNCHANGED <<engineVars, callVars, serviceVars, loopVars, sessionVars>>

\* one pair of calls on a pair of fresh engines
RuleNext ==
    /\ probe_call = NoCall
    /\ \E ev \in RuleEvents, rules \in RuleLists :
          \/ EvaluateRules(ev, rules)
          \/ \E i \in 1..Len(rules), w \in WeightInputs : EvaluateReweighted(ev, rules, i, w)
          \/ \E p \in Permutations(1..Len(rules)) : EvaluatePermuted(ev, rules, p)

RuleSpec == Init /\ [][RuleNext]_vars

(***************************************************************************)
(* analyze_transaction called again and again on one engine with the       *)
(* default rules, for events with and without the 'fraud_indicators' hint. *)
(***************************************************************************)
VelocityEvents == Events \cup HintedEvents

VelocityNext == \E ev \in VelocityEvents : Analyze(ev)

VelocitySpec == Init /\ [][VelocityNext]_vars

(***************************************************************************)
(* The engine with a caller's rule list whose weight puts the final score  *)
(* just under a tier threshold (RoundingSpec): 0.6 * 6.66 = 3.996.         *)
(***************************************************************************)
NearTierRules ==
    << [name |-> "foreign_transaction", type |-> "location", threshold |-> 1,
        weight |-> 6660] >>

RoundingRuleLists == {DefaultRules, NearTierRules}

RoundingNext ==
    \/ \E ev \in Events : Analyze(ev)
    \/ \E new_rules \in RoundingRuleLists : UpdateRiskRules(new_rules)

RoundingSpec == Init /\ [][RoundingNext]_vars

(***************************************************************************)
(* The engine with rule lists that carry the 'active' flag (ActiveSpec):   *)
(* analyze_transaction, update_risk_rules and get_model_performance.       *)
(***************************************************************************)
PausedRules ==
    << [name |-> "foreign_transaction", type |-> "location", threshold |-> 1,
        weight |-> 2000, active |-> FALSE],
       [name |-> "new_merchant", type |-> "pattern", threshold |-> 1,
        weight |-> 1000, active |-> TRUE] >>

ActiveRuleLists == {DefaultRules, PausedRules}

\* r.get('active', True)
RuleActive(rule) == IF "active" \in DOMAIN rule THEN rule.active ELSE TRUE

\* the dict get_model_performance returns (without its timestamp)
ModelPerformance(rules) ==
    [models_loaded |-> 2,
     rules_active |-> Cardinality({i \in DOMAIN rules : RuleActive(rules[i])}),
     fraud_threshold |-> FRAUD_THRESHOLD]

\* get_model_performance
GetModelPerformance ==
    /\ probe_call' = [fn |-> "get_model_performance", rules |-> risk_rules,
                      out |-> ModelPerformance(risk_rules)]
    /\ UNCHANGED <<engineVars, callVars, serviceVars, loopVars, sessionVars,
                   probe_score, probe_tier, twin_rules, twin_result>>

ActiveNext ==
    \/ \E ev \in Events : Analyze(ev)
    \/ \E new_rules \in ActiveRuleLists : UpdateRiskRules(new_rules)
    \/ GetModelPerformance

ActiveSpec == Init /\ [][ActiveNext]_vars

(***************************************************************************)
(* The alert desk (AlertSpec): process_transaction, resolve_alert and      *)
(* get_active_alerts on one store.  probe_call holds the last desk call    *)
(* and what it returned; 'turn' tells one call from the next.              *)
(***************************************************************************)
AlertEvents ==
    { ev \in ServiceEvents :
         /\ ev.timestamp = "2024-01-15T14:00:00"
         /\ ev.location_country = "IE"
         /\ ev.amount \in {"-10", "5000"} }

\* the alert ids a caller may pass; the last one is never created
AlertIds == 1..(Cardinality(TxIds) + 1)

\* the resolutions AlertUpdate accepts
Resolutions == {"approved", "blocked", "escalated", "false_positive"}

SeverityFilters == {"", "high"}
DEFAULT_LIMIT == 50

Turn == IF "turn" \in DOMAIN probe_call THEN probe_call.turn ELSE 0

\* the alert row after resolve_alert set its status and resolution
ResolvedRow(alert, resolution) ==
    [k \in DOMAIN alert \cup {"resolution"} |->
        IF k = "status" THEN "resolved"
        ELSE IF k = "resolution" THEN resolution
        ELSE alert[k]]

\* the transaction row of the alert after resolve_alert
ResolvedTransaction(tx, resolution) ==
    IF resolution \in {"approved", "blocked", "escalated"}
    THEN [tx EXCEPT !.status = resolution]
    ELSE tx

\* resolve_alert; db_fault "commit" is a commit that fails
ResolveAlert(alert_id, resolution, db_fault) ==
    LET found == {i \in DOMAIN alerts : alerts[i].alert_id = alert_id}
        committed == found # {} /\ db_fault = "none"
    IN  /\ probe_call' =
              [fn |-> "resolve_alert", alert_id |-> alert_id,
               resolution |-> resolution, out |-> committed, turn |-> 1 - Turn]
        /\ alerts' =
              IF committed
              THEN [i \in DOMAIN alerts |->
                      IF i \in found THEN ResolvedRow(alerts[i], resolution)
                      ELSE alerts[i]]
              ELSE alerts
        /\ transactions' =
              IF committed
              THEN [t \in DOMAIN transactions |->
                      IF \E i \in found : alerts[i].transaction_id = t
                      THEN ResolvedTransaction(transactions[t], resolution)
                      ELSE transactions[t]]
              ELSE transactions
        /\ UNCHANGED <<notified, response, engineVars, callVars, loopVars, sessionVars,
                       probe_score, probe_tier, twin_rules, twin_result>>

RECURSIVE Reversed(_)
Reversed(seq) ==
    IF seq = <<>> THEN <<>> ELSE Append(Reversed(Tail(seq)), Head(seq))

\* the rows get_active_alerts reads: status open or investigating, of the
\* severity asked for if any, newest first, at most 'limit'
ActiveAlerts(severity) ==
    LET Wanted(alert) ==
            /\ alert.status \in {"open", "investigating"}
            /\ severity = "" \/ alert.severity = severity
        newest == Reversed(SelectSeq(alerts, Wanted))
    IN  SubSeq(newest, 1, Min(Len(newest), DEFAULT_LIMIT))

\* get_active_alerts
GetActiveAlerts(severity) ==
    /\ probe_call' =
          [fn |-> "get_active_alerts", severity |-> severity,
           out |-> [k \in DOMAIN ActiveAlerts(severity) |->
                      [alert_id |-> ActiveAlerts(severity)[k].alert_id,
                       severity |-> ActiveAlerts(severity)[k].severity,
                       status |-> ActiveAlerts(severity)[k].status]],
           turn |-> 1 - Turn]
    /\ UNCHANGED <<serviceVars, engineVars, callVars, loopVars, sessionVars,
                   probe_score, probe_tier, twin_rules, twin_result>>

AlertNext ==
    \/ \E tid \in TxIds, ev \in AlertEvents :
          /\ ProcessTransaction(tid, ev, "none")
          /\ UNCHANGED <<engineVars, callVars, loopVars, sessionVars, probeVars>>
    \/ \E alert_id \in AlertIds, resolution \in Resolutions, db_fault \in {"none", "commit"} :
          ResolveAlert(alert_id, resolution, db_fault)
    \/ \E severity \in SeverityFilters : GetActiveAlerts(severity)

AlertSpec == Init /\ [][AlertNext]_vars

(***************************************************************************)
(* The web interface (SessionSpec): client sessions that log in on the     *)
(* login page, request the protected pages and press Logout.  A session    *)
(* can press a button only on the page it displays.                        *)
(***************************************************************************)
ProtectedPages == {"/dashboard", "/transactions", "/customers", "/reports"}
LogoutPages == {"/dashboard", "/nav"}
Usernames == {"analyst", "guest"}
Passwords == {"secure123", "wrong"}

\* the test every guarded page starts with
Authenticated == "analyst" \in authenticated_users

\* a request of the login page, which has no guard
LoginPage(session) ==
    /\ client' = [client EXCEPT ![session] = "/"]
    /\ UNCHANGED <<authenticated_users, logged_in, page_view>>
    /\ UNCHANGED <<engineVars, callVars, serviceVars, loopVars, probeVars>>

\* handle_login, the click handler of the login page, and the request of
\* /dashboard it sends the client to
HandleLogin(session, username, password) ==
    /\ client[session] = "/"
    /\ IF username = "analyst" /\ password = "secure123"
       THEN /\ authenticated_users' = authenticated_users \cup {"analyst"}
            /\ logged_in' = logged_in \cup {session}
            /\ client' = [client EXCEPT ![session] = "/dashboard"]
            /\ page_view' = [session |-> session, page |-> "/dashboard",
                             rendered |-> TRUE, entitled |-> TRUE]
       ELSE UNCHANGED sessionVars
    /\ UNCHANGED <<engineVars, callVars, serviceVars, loopVars, probeVars>>

\* a request of /dashboard, /transactions, /customers or /reports: the page
\* is built when 'analyst' is in authenticated_users, otherwise the client
\* is sent to the login page
ViewPage(session, page) ==
    /\ page_view' = [session |-> session, page |-> page,
                     rendered |-> Authenticated,
                     entitled |-> session \in logged_in]
    /\ client' = [client EXCEPT ![session] = IF Authenticated THEN page ELSE "/"]
    /\ UNCHANGED <<authenticated_users, logged_in>>
    /\ UNCHANGED <<engineVars, callVars, serviceVars, loopVars, probeVars>>

\* a request of /nav: the header is built when 'analyst' is in
\* authenticated_users, otherwise the page stays empty
ViewNav(session) ==
    /\ client' = [client EXCEPT ![session] = IF Authenticated THEN "/nav" ELSE "/nav-empty"]
    /\ UNCHANGED <<authenticated_users, logged_in, page_view>>
    /\ UNCHANGED <<engineVars, callVars, serviceVars, loopVars, probeVars>>

\* the Logout button of the dashboard and of the navigation header
Logout(session) ==
    /\ client[session] \in LogoutPages
    /\ authenticated_users' = {}
    /\ logged_in' = logged_in \ {session}
    /\ client' = [client EXCEPT ![session] = "/"]
    /\ UNCHANGED page_view
    /\ UNCHANGED <<engineVars, callVars, serviceVars, loopVars, probeVars>>

SessionNext ==
    \E session \in Sessions :
        \/ LoginPage(session)
        \/ \E username \in Usernames, password \in Passwords :
              HandleLogin(session, username, password)
        \/ \E page \in ProtectedPages : ViewPage(session, page)
        \/ ViewNav(session)
        \/ Logout(session)

SessionSpec == Init /\ [][SessionNext]_vars

(***************************************************************************)
(* _extract_features on its own (ExtractSpec): one call on an event, with  *)
(* and without the key 'account_balance'.                                  *)
(***************************************************************************)
BalanceInputs == {"0", "1000", "abc"}

ExtractEvents ==
    Events \cup
    [amount : AmountInputs, timestamp : TimestampInputs,
     location_country : CountryInputs, is_new_merchant : BOOLEAN,
     account_balance : BalanceInputs]

ExtractCall(ev) ==
    /\ probe_call' =
          [fn |-> "_extract_features", ev |-> ev, raised |-> ExtractRaises(ev),
           out |-> IF ExtractRaises(ev) THEN <<>> ELSE ExtractFeatures(ev)]
    /\ UNCHANGED <<engineVars, callVars, serviceVars, loopVars, sessionVars,
                   probe_score, probe_tier, twin_rules, twin_result>>

ExtractNext == probe_call = NoCall /\ \E ev \in ExtractEvents : ExtractCall(ev)

ExtractSpec == Init /\ [][ExtractNext]_vars

(***************************************************************************)
(* _generate_fraud_indicators called once with a list of triggered rule    *)
(* names, repeated names included, and a feature vector.                   *)
(***************************************************************************)
TriggeredNameInputs ==
    {"high_amount_threshold", "unusual_time", "new_merchant", "trusted_merchant"}

TriggeredInputs == UNION { [1..n -> TriggeredNameInputs] : n \in 0..MaxTriggered }

FeatureInputs ==
    { << log_amount, 14, 0, 3, country_risk, 1, merchant_risk, 10 >> :
         log_amount \in {Log1p(-10), Log1p(100), Log1p(5000)},
         country_risk \in {0, 2},
         merchant_risk \in {1, 2} }

GenerateIndicators(triggered, features) ==
    /\ probe_call' =
          [fn |-> "_generate_fraud_indicators", triggered |-> triggered,
           features |-> features,
           out |-> GenerateFraudIndicators(hash_seed, triggered, features)]
    /\ UNCHANGED <<probe_score, probe_tier, twin_rules, twin_result>>
    /\ UNCHANGED <<engineVars, callVars, serviceVars, loopVars, sessionVars>>

\* one call on a fresh engine
IndicatorNext ==
    /\ probe_call = NoCall
    /\ \E triggered \in TriggeredInputs, features \in FeatureInputs :
          GenerateIndicators(triggered, features)

IndicatorSpec == Init /\ [][IndicatorNext]_vars

(***************************************************************************)
(* _combine_scores applied to pairs of scores, those that the rule and     *)
(* model scoring cannot return included.                                   *)
(***************************************************************************)
RuleScoreInputs == { k * 500 : k \in -5..30 }
MlScoreInputs == { k * 250 : k \in 0..40 } \cup {1755, 9990, 30000}

Combine(rule_score, ml_score) ==
    /\ probe_call' =
          [fn |-> "_combine_scores", rule_score |-> rule_score, ml_score |-> ml_score,
           out |-> CombineScores(rule_score, ml_score)]
    /\ UNCHANGED <<probe_score, probe_tier, twin_rules, twin_result>>
    /\ UNCHANGED <<engineVars, callVars, serviceVars, loopVars, sessionVars>>

\* one call on a fresh engine
FusionNext ==
    /\ probe_call = NoCall
    /\ \E rule_score \in RuleScoreInputs, ml_score \in MlScoreInputs :
          Combine(rule_score, ml_score)

FusionSpec == Init /\ [][FusionNext]_vars

(***************************************************************************)
(* Properties of analyze_transaction (Spec).                               *)
(***************************************************************************)
Called == locals.step # "idle"

NoDuplicates(seq) == \A i, j \in DOMAIN seq : seq[i] = seq[j] => i = j

\* C1: analyze_transaction always returns a dict, and when a step of the
\* pipeline raised, the dict is the degraded result: risk_score 0.0,
\* risk_level 'unknown', is_flagged false, no indicators, an 'error' entry.
AnalyzeNeverRaises ==
    Called =>
        /\ result.risk_level \in Tiers \cup {"unknown"}
        /\ locals.step # "none" =>
              /\ DOMAIN result =
                    {"risk_score", "risk_level", "is_flagged", "fraud_indicators", "error"}
              /\ result.risk_score = 0
              /\ result.risk_level = "unknown"
              /\ result.is_flagged = FALSE
              /\ result.fraud_indicators = <<>>
              /\ result.error \in {"ValueError", "KeyError"}

RuleEvaluationFailed == locals.step = "rules" /\ result.risk_level = "unknown"

\* C3: the rule score of every call lies in [0, 10], whatever rule list is
\* installed.
RuleScoreInRange ==
    (Called /\ locals.step = "none") =>
        (0 <= locals.rule_score /\ locals.rule_score <= MAX_SCORE)

\* C4: the final score, the reported risk_score and the model score of
\* every call lie in [0, 10].
ScoresInRange ==
    (Called /\ locals.step = "none") =>
        /\ 0 <= locals.final_score /\ locals.final_score <= MAX_SCORE
        /\ 0 <= result.risk_score /\ result.risk_score <= MAX_SCORE
        /\ 0 <= locals.ml_score /\ locals.ml_score <= MAX_SCORE

\* C6: in a result that is not degraded, is_flagged holds exactly when the
\* final score reaches FRAUD_THRESHOLD, whatever the tier.
FlaggedIffThreshold ==
    (Called /\ locals.step = "none") =>
        (result.is_flagged <=> locals.final_score >= FRAUD_THRESHOLD)

FlaggedLowTier ==
    Called /\ locals.step = "none" /\ result.is_flagged /\ result.risk_level = "low"

SameOutcome(r1, r2) ==
    /\ r1.risk_score = r2.risk_score
    /\ r1.risk_level = r2.risk_level
    /\ r1.fraud_indicators = r2.fraud_indicators
    /\ ("triggered_rules" \in DOMAIN r1) <=> ("triggered_rules" \in DOMAIN r2)
    /\ "triggered_rules" \in DOMAIN r1 => r1.triggered_rules = r2.triggered_rules

MlFailureFallsBack ==
    (Called /\ locals.step = "none" /\ locals.ml_raised) =>
        /\ locals.ml_score = 0
        /\ result.risk_level \in Tiers
        /\ "error" \notin DOMAIN result
        /\ locals.final_score = Min((locals.rule_score * RULE_WEIGHT) \div 1000, MAX_SCORE)
        /\ result.risk_score = Round2(locals.final_score)

MlFailedRulesScored ==
    Called /\ locals.step = "none" /\ locals.ml_raised /\ locals.rule_score > 0

RECURSIVE TriggeredNames(_, _, _)
TriggeredNames(ev, rules, i) ==
    IF i > Len(rules) THEN <<>>
    ELSE (IF RuleTriggered(rules[i], ev) THEN <<rules[i].name>> ELSE <<>>)
         \o TriggeredNames(ev, rules, i + 1)

\* C10: triggered_rules lists the names of exactly the triggered rules, in
\* the order of the rule list, and no name twice.
TriggeredRulesExact ==
    (Called /\ locals.step = "none") =>
        /\ result.triggered_rules = TriggeredNames(event, locals.rules, 1)
        /\ NoDuplicates(result.triggered_rules)

\* C13: after update_risk_rules(new_rules) the engine's list is exactly
\* new_rules, and a later analyze_transaction call scores and reports the
\* rules of new_rules only: no rule of the list before contributes.
RulesFullyReplaced ==
    [][/\ risk_rules' = installed'
       /\ (installed' = installed /\ locals' # locals) =>
             LET applied == ApplyRiskRules(event', installed)
             IN  IF ExtractRaises(event') \/ applied.raised
                 THEN result'.risk_level = "unknown"
                 ELSE /\ result'.triggered_rules = applied.triggered
                      /\ locals'.rule_score = applied.score]_vars

DefaultsNoLongerTrigger ==
    /\ Called /\ locals.step = "none"
    /\ installed # DefaultRules
    /\ locals.rules = installed
    /\ Len(ApplyRiskRules(event, DefaultRules).triggered) >= 3
    /\ result.triggered_rules = <<"trusted_merchant">>

(***************************************************************************)
(* Properties of the engine updated once and of its twin updated twice     *)
(* (TwinSpec).                                                             *)
(***************************************************************************)
\* C12: update_risk_rules called twice in a row with a list leaves the
\* engine as one call does: the two engines hold the same rule list and
\* every analyze_transaction call returns the same result on both.
UpdateIdempotent ==
    /\ twin_rules = risk_rules
    /\ twin_result = result

UpdatedTwiceThenScored ==
    /\ Called /\ locals.step = "none"
    /\ risk_rules # DefaultRules
    /\ locals.rules = risk_rules
    /\ result.triggered_rules # <<>>
    /\ twin_result = result

(***************************************************************************)
(* Properties of the velocity rule (VelocitySpec).                         *)
(***************************************************************************)
VelocityTriggered == "velocity_check" \in Range(result.triggered_rules)

\* C20: the velocity rule never triggers for an event without the
\* 'fraud_indicators' hint, triggers only for a hint that tells of rapid
\* transactions, and does so whatever calls the engine served before.
VelocityFromHintOnly ==
    (Called /\ locals.step = "none") =>
        /\ "fraud_indicators" \notin DOMAIN event => ~VelocityTriggered
        /\ VelocityTriggered => event.fraud_indicators \in {"rapid", "rapid succession"}
        /\ ("fraud_indicators" \in DOMAIN event
               /\ event.fraud_indicators \in {"", "normal activity"}) => ~VelocityTriggered

RepeatedEventNoVelocity ==
    /\ Called /\ locals.step = "none"
    /\ repeated
    /\ "fraud_indicators" \notin DOMAIN event
    /\ result.triggered_rules # <<>>
    /\ ~VelocityTriggered

(***************************************************************************)
(* Properties of process_transaction (ServiceSpec).                        *)
(***************************************************************************)
Processed == response.status = "processed"

\* C2: a transaction whose analysis is degraded (risk_level 'unknown') is
\* not stored as 'approved' and is reported as requiring review.
DegradedRoutedToReview ==
    (Processed /\ response.risk_assessment.risk_level = "unknown") =>
        /\ transactions[Len(transactions)].status # "approved"
        /\ response.requires_review

\* C15: a call that stored the transaction and created the alert hands the
\* alert to send_fraud_alert exactly when the result is flagged and its
\* risk_level is 'high' or 'critical'; a flagged 'low' or 'medium' result
\* creates an alert and sends nothing, an unflagged result sends nothing.
NotifiedIffHighRisk ==
    [][response'.status = "processed" =>
         LET analysis == response'.risk_assessment
             urgent == analysis.is_flagged /\ analysis.risk_level \in {"high", "critical"}
         IN  /\ notified' # notified <=> urgent
             /\ urgent => notified' = notified \cup {alerts'[Len(alerts')].alert_id}
             /\ analysis.is_flagged <=> Len(alerts') = Len(alerts) + 1
             /\ ~analysis.is_flagged => alerts' = alerts]_vars

AlertsSentAndHeld ==
    \E i, j \in DOMAIN alerts :
        /\ alerts[i].severity = "low"
        /\ alerts[i].alert_id \notin notified
        /\ alerts[j].severity \in {"high", "critical"}
        /\ alerts[j].alert_id \in notified

\* C16: what process_transaction returns and stores does not depend on the
\* delivery of the notification: a call that handed an alert to
\* send_fraud_alert returns status 'processed' with the analysis result and
\* requires_review, and has stored the transaction and the alert, as the
\* analysis alone determines them.
DeliveryIndependent ==
    [][notified' # notified =>
         /\ response'.status = "processed"
         /\ LET analysis == response'.risk_assessment
                tid == transactions'[Len(transactions')].transaction_id
            IN  /\ response' = ProcessedResponse(analysis)
                /\ response'.requires_review
                /\ transactions' = Append(transactions, TransactionRow(tid, analysis))
                /\ alerts' = Append(alerts, AlertRow(Len(transactions'), analysis))]_vars

DeliveryFailedProcessed ==
    /\ Processed
    /\ alerts # <<>>
    /\ alerts[Len(alerts)].alert_id \in notified
    /\ alerts[Len(alerts)].transaction_id = Len(transactions)
    /\ ~SendFraudAlert(alerts[Len(alerts)]).delivered
    /\ transactions[Len(transactions)].status = "investigating"

(***************************************************************************)
(* Properties of the concurrent rule evaluation (ConcSpec).                *)
(***************************************************************************)
\* what the call in flight returns or raises
LoopOutcome ==
    [raised |-> pc = "raised",
     score |-> IF pc = "raised" THEN 0 ELSE Min(loop_acc.total, MAX_SCORE),
     triggered |-> IF pc = "raised" THEN <<>> ELSE loop_acc.triggered]

\* C7: a rule evaluation that ran while update_risk_rules replaced the rule
\* list is the evaluation of the complete old list or of the complete new
\* list, never of a mix of the two.
RuleEvaluationUnmixed ==
    pc \in {"returned", "raised"} =>
        \/ LoopOutcome = ApplyRiskRules(call_event, old_rules)
        \/ LoopOutcome = ApplyRiskRules(call_event, swapped_rules)

ReplacedInFlight ==
    /\ pc = "returned"
    /\ old_rules # swapped_rules
    /\ Len(old_rules) > 1
    /\ Len(swapped_rules) > 1
    /\ Len(loop_acc.triggered) > 1
    /\ ApplyRiskRules(call_event, old_rules) # ApplyRiskRules(call_event, swapped_rules)

(***************************************************************************)
(* Properties of _apply_risk_rules (RuleSpec).                             *)
(***************************************************************************)
RulesEvaluated ==
    /\ probe_call.fn = "_apply_risk_rules"
    /\ ~probe_call.out.raised
    /\ ~probe_call.other_out.raised

\* the weight of the rule at index 'index' was changed and the event
\* triggers that rule
TriggeredRuleReweighted ==
    /\ RulesEvaluated
    /\ probe_call.index > 0
    /\ RuleTriggered(probe_call.rules[probe_call.index], probe_call.ev)

\* C11: for a fixed event, raising the weight of one triggered rule and
\* leaving the other rules as they are never lowers the rule score.
WeightMonotone ==
    (/\ TriggeredRuleReweighted
     /\ probe_call.other[probe_call.index].weight >= probe_call.rules[probe_call.index].weight)
        => probe_call.other_out.score >= probe_call.out.score

WeightRaisedScoreRaised ==
    /\ TriggeredRuleReweighted
    /\ probe_call.other[probe_call.index].weight > probe_call.rules[probe_call.index].weight
    /\ probe_call.other_out.score > probe_call.out.score
    /\ probe_call.other_out.score = MAX_SCORE

\* the sum of the weights of the rules that ev triggers, added in the order
\* of the list
RECURSIVE WeightSum(_, _, _)
WeightSum(ev, rules, n) ==
    IF n = 0 THEN 0
    ELSE IF RuleTriggered(rules[n], ev)
         THEN FloatAdd(WeightSum(ev, rules, n - 1), rules[n].weight)
         ELSE WeightSum(ev, rules, n - 1)

\* C18: the rule score is min(sum of the weights of the triggered rules,
\* 10.0), and every permutation of the rule list gives the same rule score
\* and the same triggered rules in another order.
RuleScoreOrderFree ==
    RulesEvaluated =>
        /\ probe_call.out.score =
              Min(WeightSum(probe_call.ev, probe_call.rules, Len(probe_call.rules)), MAX_SCORE)
        /\ probe_call.kind = "permuted" =>
              /\ probe_call.other_out.score = probe_call.out.score
              /\ Range(probe_call.other_out.triggered) = Range(probe_call.out.triggered)
              /\ Len(probe_call.other_out.triggered) = Len(probe_call.out.triggered)

NightHours == {22, 23, 0, 1, 2, 3, 4, 5, 6}

\* C19: a rule of type 'time' triggers exactly when the hour of the event
\* timestamp is 22, 23 or 0 to 6, 6 included, and not from 7 to 21.
TimeRuleWindow ==
    RulesEvaluated =>
        \A h \in 0..23, i \in DOMAIN probe_call.rules :
            (probe_call.ev.timestamp = ClockTimestamps[h + 1]
                /\ probe_call.rules[i].type = "time") =>
                (probe_call.rules[i].name \in Range(probe_call.out.triggered)
                    <=> h \in NightHours)

TimeRuleAtSix ==
    /\ RulesEvaluated
    /\ probe_call.ev.timestamp = ClockTimestamps[7]
    /\ probe_call.rules = DefaultRules
    /\ probe_call.out.triggered = <<"unusual_time">>

ForeignNewMerchant ==
    [amount |-> "2500", timestamp |-> "2024-01-15T14:00:00",
     location_country |-> "US", is_new_merchant |-> TRUE,
     merchant_category |-> "electronics", channel |-> "online"]

\* C21: with the default rules, a purchase of 2500.00 at 14:00 in a country
\* outside the bloc, at a new merchant and with no velocity hint triggers
\* foreign_transaction and new_merchant, in that order, and scores the sum
\* of their weights; a 'location' rule triggers exactly when the country is
\* not the home country and a 'pattern' rule exactly when is_new_merchant
\* is set.
ForeignNewMerchantScenario ==
    RulesEvaluated =>
        /\ (probe_call.ev = ForeignNewMerchant /\ probe_call.rules = DefaultRules) =>
              /\ probe_call.out.triggered = <<"foreign_transaction", "new_merchant">>
              /\ probe_call.out.score = DefaultRules[2].weight + DefaultRules[5].weight
        /\ \A i \in DOMAIN probe_call.rules :
              /\ probe_call.rules[i].type = "location" =>
                    (probe_call.rules[i].name \in Range(probe_call.out.triggered)
                        <=> probe_call.ev.location_country # "IE")
              /\ probe_call.rules[i].type = "pattern" =>
                    (probe_call.rules[i].name \in Range(probe_call.out.triggered)
                        <=> probe_call.ev.is_new_merchant)

ScenarioEvaluated ==
    /\ RulesEvaluated
    /\ probe_call.ev = ForeignNewMerchant
    /\ probe_call.rules = DefaultRules
    /\ probe_call.out.triggered = <<"foreign_transaction", "new_merchant">>
    /\ probe_call.out.score = 3000

(***************************************************************************)
(* Properties of _generate_fraud_indicators (IndicatorSpec).               *)
(***************************************************************************)
\* C14: the list returned by _generate_fraud_indicators holds no string
\* twice, whatever names, repeated or not, the list of triggered rules
\* holds and whatever the feature vector is.
IndicatorsDistinct ==
    probe_call.fn = "_generate_fraud_indicators" => NoDuplicates(probe_call.out)

RepeatedNameOnePhrase ==
    /\ probe_call.fn = "_generate_fraud_indicators"
    /\ ~NoDuplicates(probe_call.triggered)
    /\ Len(IndicatorList(probe_call.triggered, probe_call.features)) > Len(probe_call.out)
    /\ Len(probe_call.out) >= 3

(***************************************************************************)
(* Properties of _combine_scores (FusionSpec).                             *)
(***************************************************************************)
\* C17: _combine_scores returns min(0.6 * ruleScore + 0.4 * mlScore, 10.0);
\* with ruleScore 0 that is 0.4 * mlScore.
FusionFormula ==
    probe_call.fn = "_combine_scores" =>
        LET weighted == 6 * probe_call.rule_score + 4 * probe_call.ml_score
        IN  /\ weighted <= 10 * MAX_SCORE => 10 * probe_call.out = weighted
            /\ weighted > 10 * MAX_SCORE => probe_call.out = MAX_SCORE
            /\ (probe_call.rule_score = 0 /\ probe_call.ml_score <= MAX_SCORE) =>
                  10 * probe_call.out = 4 * probe_call.ml_score

ModelScoreAlone ==
    /\ probe_call.fn = "_combine_scores"
    /\ probe_call.rule_score = 0
    /\ probe_call.ml_score = 9990
    /\ probe_call.out = 3996

(***************************************************************************)
(* Properties of the store (ServiceSpec).                                  *)
(***************************************************************************)
\* C27: a process_transaction call that returns status 'error' leaves no
\* transaction row and no alert row of its own in the store.
ErrorLeavesNoRows ==
    [][response'.status = "error" =>
          (transactions' = transactions /\ alerts' = alerts)]_vars

\* what the code keeps: a call that fails in _store_transaction writes nothing
StoreFailureLeavesNoRows ==
    [][(response'.status = "error" /\ alerts' = alerts
           /\ Len(transactions') > Len(transactions)) =>
          transactions'[Len(transactions')].is_flagged]_vars

\* C28: after any sequence of process_transaction calls, every alert
\* refers to a stored transaction that is flagged and held with status
\* 'investigating', its severity is one of the four tiers, and a call
\* creates at most one alert.
AlertsReferToHeldTransactions ==
    /\ [](\A i \in DOMAIN alerts :
             /\ alerts[i].transaction_id \in DOMAIN transactions
             /\ transactions[alerts[i].transaction_id].is_flagged
             /\ transactions[alerts[i].transaction_id].status = "investigating"
             /\ alerts[i].severity \in {"low", "medium", "high", "critical"})
    /\ [][Len(alerts') <= Len(alerts) + 1]_vars

\* a transaction that was approved, then one that was held with its alert
AlertOfSecondTransaction ==
    /\ Len(transactions) = 2
    /\ ~transactions[1].is_flagged
    /\ Len(alerts) = 1
    /\ alerts[1].transaction_id = 2
    /\ alerts[1].severity = "low"

(***************************************************************************)
(* Properties of resolve_alert and get_active_alerts (AlertSpec).          *)
(***************************************************************************)
AlertOf(alert_id) == CHOOSE i \in DOMAIN alerts' : alerts'[i].alert_id = alert_id

\* C29: resolve_alert on an alert id that does not exist returns False and
\* changes no alert and no transaction; when it returns True the alert is
\* 'resolved', stays resolved, is not returned by get_active_alerts again,
\* and its transaction is no longer 'investigating': its status is the
\* resolution, approved, blocked or escalated.
ResolveAlertOutcome ==
    [][/\ (probe_call'.fn = "resolve_alert" /\ probe_call' # probe_call) =>
            /\ (\A i \in DOMAIN alerts : alerts[i].alert_id # probe_call'.alert_id) =>
                  /\ ~probe_call'.out
                  /\ alerts' = alerts
                  /\ transactions' = transactions
            /\ probe_call'.out =>
                  /\ alerts'[AlertOf(probe_call'.alert_id)].status = "resolved"
                  /\ transactions'[alerts'[AlertOf(probe_call'.alert_id)].transaction_id].status
                        \in {"approved", "blocked", "escalated"}
       /\ \A i \in DOMAIN alerts :
             alerts[i].status = "resolved" => alerts'[i].status = "resolved"
       /\ (probe_call'.fn = "get_active_alerts" /\ probe_call' # probe_call) =>
             \A k \in DOMAIN probe_call'.out :
                \A i \in DOMAIN alerts :
                   alerts[i].alert_id = probe_call'.out[k].alert_id =>
                       alerts[i].status # "resolved"]_vars

\* what the code keeps: everything of C29 but the transaction of an alert
\* resolved as 'false_positive', which stays as it was
ResolveAlertOutcomeKept ==
    [][/\ (probe_call'.fn = "resolve_alert" /\ probe_call' # probe_call) =>
            /\ (\A i \in DOMAIN alerts : alerts[i].alert_id # probe_call'.alert_id) =>
                  /\ ~probe_call'.out
                  /\ alerts' = alerts
                  /\ transactions' = transactions
            /\ probe_call'.out =>
                  /\ alerts'[AlertOf(probe_call'.alert_id)].status = "resolved"
                  /\ probe_call'.resolution # "false_positive" =>
                        transactions'[alerts'[AlertOf(probe_call'.alert_id)].transaction_id].status
                           = probe_call'.resolution
       /\ \A i \in DOMAIN alerts :
             alerts[i].status = "resolved" => alerts'[i].status = "resolved"
       /\ (probe_call'.fn = "get_active_alerts" /\ probe_call' # probe_call) =>
             \A k \in DOMAIN probe_call'.out :
                \A i \in DOMAIN alerts :
                   alerts[i].alert_id = probe_call'.out[k].alert_id =>
                       alerts[i].status # "resolved"]_vars

(***************************************************************************)
(* Properties of the web sessions (SessionSpec).                           *)
(***************************************************************************)
\* C30: a protected page is rendered for a session exactly when that same
\* session logged in and has not logged out since, whatever the other
\* sessions did: neither the login nor the logout of another session
\* changes what the session may view.
PageOnlyForOwnLogin ==
    page_view.page # "none" => (page_view.rendered <=> page_view.entitled)

(***************************************************************************)
\* C25: in a result that is not degraded, risk_level is the tier of the
\* reported, rounded risk_score: critical from 8.0, high from 6.0, medium
\* from 4.0, low below.
TierOfReportedScore ==
    (Called /\ locals.step = "none") =>
        /\ result.risk_level = "critical" <=> result.risk_score >= 8000
        /\ result.risk_level = "high" <=>
              (result.risk_score >= 6000 /\ result.risk_score < 8000)
        /\ result.risk_level = "medium" <=>
              (result.risk_score >= 4000 /\ result.risk_score < 6000)
        /\ result.risk_level = "low" <=> result.risk_score < 4000

\* what the code keeps: risk_level is the tier of the score before rounding
TierOfFinalScore ==
    (Called /\ locals.step = "none") =>
        result.risk_level = DetermineRiskLevel(locals.final_score)

(***************************************************************************)
(* Properties of the 'active' flag (ActiveSpec).                           *)
(***************************************************************************)
\* C26: a rule whose active flag is false never triggers: its name is not
\* in triggered_rules and it adds no weight, so no more rules trigger than
\* get_model_performance counts as active, and the rule score is the score
\* of the active rules alone.
InactiveRuleNeverTriggers ==
    (Called /\ locals.step = "none") =>
        LET active == SelectSeq(locals.rules, RuleActive)
        IN  /\ \A i \in DOMAIN locals.rules :
                  ~RuleActive(locals.rules[i]) =>
                      locals.rules[i].name \notin Range(result.triggered_rules)
            /\ Len(result.triggered_rules) <= ModelPerformance(locals.rules).rules_active
            /\ locals.rule_score = ApplyRiskRules(event, active).score

\* what the code keeps: get_model_performance counts the rules that are not
\* switched off
RulesActiveCounted ==
    probe_call.fn = "get_model_performance" =>
        probe_call.out.rules_active =
            Len(probe_call.rules)
              - Cardinality({i \in DOMAIN probe_call.rules :
                               "active" \in DOMAIN probe_call.rules[i]
                                  /\ ~probe_call.rules[i].active})

(***************************************************************************)
(* Properties of _extract_features (ExtractSpec).                          *)
(***************************************************************************)
FeaturesExtracted == probe_call.fn = "_extract_features" /\ ~probe_call.raised

\* C24: for every event _extract_features accepts, the vector has exactly 8
\* entries and the last one is amount / max(account_balance, 1) clamped
\* into [0, 2], with the default balance when the event carries none.
BalanceRatioClamped ==
    FeaturesExtracted =>
        LET ev == probe_call.ev
            balance == IF "account_balance" \in DOMAIN ev
                       THEN FloatOf(ev.account_balance) ELSE DEFAULT_BALANCE
            ratio == (FloatOf(ev.amount) * 1000) \div Max(balance, 1)
        IN  /\ Len(probe_call.out) = 8
            /\ probe_call.out[8] = Max(0, Min(ratio, 2000))

\* the part of C24 the code keeps: 8 entries, the last one at most 2
BalanceRatioCapped ==
    FeaturesExtracted => Len(probe_call.out) = 8 /\ probe_call.out[8] <= 2000

(***************************************************************************)
(* Properties of _generate_fraud_indicators, continued.                    *)
(***************************************************************************)
\* the phrase of each name of the lookup table, and the feature phrases
ExpectedPhrases(triggered, features) ==
    {ph \in Range(Phrases) :
        \/ ph = "Unusually high transaction amount"
              /\ "high_amount_threshold" \in Range(triggered)
        \/ ph = "Transaction outside Ireland"
              /\ "foreign_transaction" \in Range(triggered)
        \/ ph = "Transaction at unusual time"
              /\ "unusual_time" \in Range(triggered)
        \/ ph = "Multiple rapid transactions"
              /\ "velocity_check" \in Range(triggered)
        \/ ph = "First transaction with this merchant"
              /\ "new_merchant" \in Range(triggered)
        \/ ph = "Amount significantly above normal pattern"
              /\ ~features[1].nan /\ features[1].v > 8000
        \/ ph = "Transaction from high-risk country" /\ features[5] = 2
        \/ ph = "High-risk merchant category" /\ features[7] = 2}

\* C23: every triggered name of the lookup table contributes its one
\* phrase, a triggered name that is not in the table contributes nothing
\* and raises nothing, and the three feature phrases are added whether or
\* not a rule triggered.
LookupTablePhrases ==
    probe_call.fn = "_generate_fraud_indicators" =>
        Range(probe_call.out) = ExpectedPhrases(probe_call.triggered, probe_call.features)

UnknownNameSkipped ==
    /\ probe_call.fn = "_generate_fraud_indicators"
    /\ probe_call.triggered = <<"trusted_merchant">>
    /\ Len(probe_call.out) = 3

\* the entries of seq up to index n, each kept at its first occurrence
RECURSIVE FirstOccurrences(_, _)
FirstOccurrences(seq, n) ==
    IF n = 0 THEN <<>>
    ELSE LET before == FirstOccurrences(seq, n - 1)
         IN  IF seq[n] \in Range(before) THEN before ELSE Append(before, seq[n])

\* C22: the returned list is in insertion order: the rule phrases in the
\* order of triggered_rules, then the phrases of the log-amount, country
\* and merchant features, each string at the place of its first occurrence.
IndicatorsInInsertionOrder ==
    probe_call.fn = "_generate_fraud_indicators" =>
        LET indicators == IndicatorList(probe_call.triggered, probe_call.features)
        IN  probe_call.out = FirstOccurrences(indicators, Len(indicators))

(***************************************************************************)
(* Properties of _determine_risk_level (TierSpec).                         *)
(***************************************************************************)
\* C5: every score has exactly one tier: critical from 8.0, high in
\* [6.0, 8.0), medium in [4.0, 6.0), low below 4.0.
TierPartition ==
    probe_tier # "none" =>
        /\ probe_tier \in Tiers
        /\ probe_tier = "critical" <=> probe_score >= CRITICAL_THRESHOLD
        /\ probe_tier = "high" <=>
              (HIGH_THRESHOLD <= probe_score /\ probe_score < CRITICAL_THRESHOLD)
        /\ probe_tier = "medium" <=>
              (MEDIUM_THRESHOLD <= probe_score /\ probe_score < HIGH_THRESHOLD)
        /\ probe_tier = "low" <=> probe_score < MEDIUM_THRESHOLD

TierBoundary == probe_tier = "critical" /\ probe_score = CRITICAL_THRESHOLD

====
